---- MODULE Spec2Model ----
(***************************************************************************)
(* A model of server.js: the tareas.json backing file, the helpers that    *)
(* load, save and sanitize, and the Express handlers that read, mutate and *)
(* overwrite the file.                                                     *)
(*                                                                         *)
(* Text is a sequence of one-character strings, so that the sanitizer and  *)
(* the two validation patterns are computed character by character.  The   *)
(* backing file is represented by whether it exists, whether its text      *)
(* parses, and the JSON value the text denotes.  The timestamp text fields *)
(* (fechaCreacion, fechaActualizacion) are left out of the records.        *)
(***************************************************************************)
EXTENDS Integers, Sequences, FiniteSets, TLC

VARIABLES
  file,      \* the backing file tareas.json
  now,       \* the value Date.now() returns
  pending,   \* per connection: the parsed request waiting for its handler
  inflight,  \* per connection: the document a started handler holds
  resp,      \* per connection: the last response sent
  prevDel,   \* history: the request handled last, if it was a successful deleteTasks
  loaded     \* history: the value readData returned to the last read-only handler

vars == <<file, now, pending, inflight, resp, prevDel, loaded>>

----------------------------------------------------------------------------
(* Bounds of the model *)

MaxNow == 5
MaxTareas == 2
MaxCategorias == 4

----------------------------------------------------------------------------
(* JavaScript values carried by request bodies and stored in records *)

Undef == [t |-> "undefined", s |-> <<>>, n |-> 0]
Null == [t |-> "null", s |-> <<>>, n |-> 0]
Str(x) == [t |-> "string", s |-> x, n |-> 0]
Num(k) == [t |-> "number", s |-> <<>>, n |-> k]
Bool(b) == [t |-> "boolean", s |-> <<>>, n |-> IF b THEN 1 ELSE 0]

Digit == {"0", "1", "2", "3", "4", "5", "6", "7", "8", "9"}

DigitVal(c) ==
  CASE c = "0" -> 0 [] c = "1" -> 1 [] c = "2" -> 2 [] c = "3" -> 3 [] c = "4" -> 4
    [] c = "5" -> 5 [] c = "6" -> 6 [] c = "7" -> 7 [] c = "8" -> 8 [] c = "9" -> 9

DigitChar(d) ==
  CASE d = 0 -> "0" [] d = 1 -> "1" [] d = 2 -> "2" [] d = 3 -> "3" [] d = 4 -> "4"
    [] d = 5 -> "5" [] d = 6 -> "6" [] d = 7 -> "7" [] d = 8 -> "8" [] d = 9 -> "9"

Whitespace == {" ", "\t", "\n"}

RECURSIVE DecVal(_)
DecVal(s) == IF s = <<>> THEN 0 ELSE 10 * DecVal(SubSeq(s, 1, Len(s) - 1)) + DigitVal(s[Len(s)])

RECURSIVE DecStr(_)
DecStr(k) == IF k < 10 THEN <<DigitChar(k)>> ELSE DecStr(k \div 10) \o <<DigitChar(k % 10)>>

RECURSIVE TrimLeft(_)
TrimLeft(s) == IF s # <<>> /\ s[1] \in Whitespace THEN TrimLeft(Tail(s)) ELSE s

RECURSIVE TrimRight(_)
TrimRight(s) ==
  IF s # <<>> /\ s[Len(s)] \in Whitespace THEN TrimRight(SubSeq(s, 1, Len(s) - 1)) ELSE s

Trim(s) == TrimRight(TrimLeft(s))

\* !v
Truthy(v) ==
  CASE v.t = "string" -> v.s # <<>>
    [] v.t = "number" -> v.n # 0
    [] v.t = "boolean" -> v.n = 1
    [] OTHER -> FALSE

\* String(v), as RegExp.prototype.test applies it to its argument
ToStr(v) ==
  CASE v.t = "string" -> v.s
    [] v.t = "number" -> DecStr(v.n)
    [] v.t = "boolean" -> IF v.n = 1 THEN <<"t", "r", "u", "e">> ELSE <<"f", "a", "l", "s", "e">>
    [] v.t = "null" -> <<"n", "u", "l", "l">>
    [] OTHER -> <<"u", "n", "d", "e", "f", "i", "n", "e", "d">>

\* Number(s) is a number (not NaN) for this text: optional white space around digits
IsNumeric(s) == \A i \in 1..Len(Trim(s)) : Trim(s)[i] \in Digit

\* a == b between a stored value and a value of the request
LooseEq(a, b) ==
  CASE a.t \in {"undefined", "null"} -> b.t \in {"undefined", "null"}
    [] b.t \in {"undefined", "null"} -> FALSE
    [] a.t = "string" /\ b.t = "string" -> a.s = b.s
    [] a.t = "string" -> IsNumeric(a.s) /\ DecVal(Trim(a.s)) = b.n
    [] b.t = "string" -> IsNumeric(b.s) /\ DecVal(Trim(b.s)) = a.n
    [] OTHER -> a.n = b.n

\* Array.prototype.includes: SameValueZero, no coercion
Includes(list, v) == \E i \in 1..Len(list) : list[i] = v

----------------------------------------------------------------------------
(* sanitizeInput *)

RECURSIVE ReplaceAll(_, _, _)
ReplaceAll(s, c, rep) ==
  IF s = <<>> THEN <<>>
  ELSE (IF s[1] = c THEN rep ELSE <<s[1]>>) \o ReplaceAll(Tail(s), c, rep)

sanitizeInput(text) ==
  IF text.t # "string" THEN Str(<<>>)
  ELSE Str(Trim(
         ReplaceAll(
           ReplaceAll(
             ReplaceAll(
               ReplaceAll(
                 ReplaceAll(text.s, "<", <<"&", "l", "t", ";">>),
                 ">", <<"&", "g", "t", ";">>),
               "\"", <<"&", "q", "u", "o", "t", ";">>),
             "'", <<"&", "#", "x", "2", "7", ";">>),
           "/", <<"&", "#", "x", "2", "F", ";">>)))

----------------------------------------------------------------------------
(* The validation patterns of POST /api/tareas *)

\* /^\d{4}-\d{2}-\d{2}$/
fechaRegex(s) ==
  /\ Len(s) = 10
  /\ \A i \in {1, 2, 3, 4, 6, 7, 9, 10} : s[i] \in Digit
  /\ s[5] = "-"
  /\ s[8] = "-"

\* ([0-2]?[0-9]): an hour group that lets 24 to 29 through
HoraAlternativeWide(h) ==
  \/ Len(h) = 1 /\ h[1] \in Digit
  \/ Len(h) = 2 /\ h[1] \in {"0", "1", "2"} /\ h[2] \in Digit

\* ([0-1]?[0-9]|2[0-3])
HoraAlternative(h) ==
  \/ Len(h) = 1 /\ h[1] \in Digit
  \/ Len(h) = 2 /\ h[1] \in {"0", "1"} /\ h[2] \in Digit
  \/ Len(h) = 2 /\ h[1] = "2" /\ h[2] \in {"0", "1", "2", "3"}

\* /^([0-1]?[0-9]|2[0-3]):[0-5][0-9]$/
horaRegex(s) ==
  \E k \in {1, 2} :
    /\ Len(s) = k + 3
    /\ HoraAlternative(SubSeq(s, 1, k))
    /\ s[k + 1] = ":"
    /\ s[k + 2] \in {"0", "1", "2", "3", "4", "5"}
    /\ s[k + 3] \in Digit

----------------------------------------------------------------------------
(* Records and documents *)

Tarea(id, titulo, fecha, hora, categoriaId, completada) ==
  [id |-> id, titulo |-> titulo, fecha |-> fecha, hora |-> hora,
   categoriaId |-> categoriaId, completada |-> completada]

Categoria(id, nombre, color) == [id |-> id, nombre |-> nombre, color |-> color]

NoTarea == Tarea(0, Undef, Undef, Undef, Undef, Undef)
NoCategoria == Categoria(0, Undef, Undef)

\* A JSON value as the handlers look at it: an object and the two keys they read,
\* an array and its items, or null.
JObject(hasT, tareas, hasC, categorias) ==
  [kind |-> "object", hasT |-> hasT, tareas |-> tareas, hasC |-> hasC,
   categorias |-> categorias, items |-> <<>>]

JArray(items) ==
  [kind |-> "array", hasT |-> FALSE, tareas |-> <<>>, hasC |-> FALSE,
   categorias |-> <<>>, items |-> items]

JNull ==
  [kind |-> "null", hasT |-> FALSE, tareas |-> <<>>, hasC |-> FALSE,
   categorias |-> <<>>, items |-> <<>>]

Doc(tareas, categorias) == JObject(TRUE, tareas, TRUE, categorias)

DefaultCategorias ==
  << Categoria(1, Str(<<"T", "r", "a", "b", "a", "j", "o">>), Str(<<"#", "0", "0", "7", "b", "f", "f">>)),
     Categoria(2, Str(<<"P", "e", "r", "s", "o", "n", "a", "l">>), Str(<<"#", "2", "8", "a", "7", "4", "5">>)),
     Categoria(3, Str(<<"E", "s", "t", "u", "d", "i", "o">>), Str(<<"#", "d", "c", "3", "5", "4", "5">>)) >>

DefaultColor == Str(<<"#", "5", "5", "5", "5", "5", "5">>)

\* Date.now() is far above the ids of the default categories
FirstNow == Len(DefaultCategorias) + 1

----------------------------------------------------------------------------
(* The backing file, readData and saveData *)

FileAbsent == [exists |-> FALSE, parses |-> FALSE, val |-> JNull]
FileGarbage == [exists |-> TRUE, parses |-> FALSE, val |-> JNull]
FileOf(v) == [exists |-> TRUE, parses |-> TRUE, val |-> v]

readData(f) ==
  IF ~f.exists THEN Doc(<<>>, DefaultCategorias)
  ELSE IF ~f.parses THEN Doc(<<>>, <<>>)
  ELSE IF f.val.kind = "array" /\ Len(f.val.items) > 0 /\ ~f.val.hasT
       THEN Doc(f.val.items, DefaultCategorias)
  ELSE f.val

\* writeFileSync either replaces the whole file, or fails: before touching it
\* ("denied") or after truncating it ("truncated").  saveData swallows the error.
saveData(f, data, disk) ==
  CASE disk = "ok" -> FileOf(data)
    [] disk = "denied" -> f
    [] OTHER -> FileGarbage

\* data.tareas / data.categorias can be used as an array
HasTareas(data) == data.kind = "object" /\ data.hasT
HasCategorias(data) == data.kind = "object" /\ data.hasC

----------------------------------------------------------------------------
(* Requests and responses *)

Token == "Bearer demo-token-123"

\* req.headers.authorization of a request that carries no such header
NoHeader == "undefined"

Body(titulo, fecha, hora, completada, categoriaId, nombre, color) ==
  [titulo |-> titulo, fecha |-> fecha, hora |-> hora, completada |-> completada,
   categoriaId |-> categoriaId, nombre |-> nombre, color |-> color]

NoBody == Body(Undef, Undef, Undef, Undef, Undef, Undef, Undef)

\* req.body.ids: an array of values, or something that is not an array
Ids(list) == [isArray |-> TRUE, list |-> list]
NoIds == [isArray |-> FALSE, list |-> <<>>]

\* op names the route; id is req.params.id (text); auth is the Authorization header
Request(op, auth, id, b, ids) == [op |-> op, auth |-> auth, id |-> id, b |-> b, ids |-> ids]

NoReq == Request("none", "", <<>>, NoBody, NoIds)

Guarded ==
  {"postTareas", "putTareas", "deleteTareas", "postCategorias", "putCategorias", "deleteCategorias"}

Response(op, status, count, tarea, categoria, result) ==
  [op |-> op, status |-> status, count |-> count, tarea |-> tarea,
   categoria |-> categoria, result |-> result]

NoResp == Response("none", 0, 0, NoTarea, NoCategoria, "")

\* What a handler leaves once it has the document: the response, the document it
\* wants on disk, and whether it calls saveData.
Outcome(r, data, save) == [r |-> r, data |-> data, save |-> save]

Fail(op, status) == Response(op, status, 0, NoTarea, NoCategoria, "")

\* A guard that only asks for a header
validateTokenPresent(req) == req.auth # NoHeader

validateToken(req) == req.auth = Token

----------------------------------------------------------------------------
(* Helpers on sequences *)

\* Array.prototype.findIndex: the first index that satisfies the test, 0 for -1
FirstIndex(S) == IF S = {} THEN 0 ELSE CHOOSE i \in S : \A j \in S : i <= j

RemoveAt(seq, i) == SubSeq(seq, 1, i - 1) \o SubSeq(seq, i + 1, Len(seq))

----------------------------------------------------------------------------
(* POST /api/tareas *)

\* The status of a return before readData, 0 when the handler goes on
postTareasEarly(req) ==
  IF ~Truthy(req.b.titulo) \/ ~Truthy(req.b.fecha) \/ ~Truthy(req.b.hora) THEN 400
  ELSE IF ~fechaRegex(ToStr(req.b.fecha)) THEN 400
  ELSE IF ~horaRegex(ToStr(req.b.hora)) THEN 400
  ELSE 0

nuevaTarea(req, t) ==
  Tarea(t, sanitizeInput(req.b.titulo), req.b.fecha, req.b.hora,
        IF Truthy(req.b.categoriaId) THEN req.b.categoriaId ELSE Null, Bool(FALSE))

postTareas(req, data, t) ==
  IF ~HasTareas(data) THEN Outcome(Fail(req.op, 500), data, FALSE)
  ELSE Outcome(Response(req.op, 200, 0, nuevaTarea(req, t), NoCategoria, ""),
               [data EXCEPT !.tareas = Append(@, nuevaTarea(req, t))], TRUE)

(* PUT /api/tareas/:id *)

tareaIndex(data, id) ==
  FirstIndex({i \in 1..Len(data.tareas) : LooseEq(Num(data.tareas[i].id), Str(id))})

tareaActualizada(old, b) ==
  Tarea(old.id,
        IF b.titulo # Undef THEN sanitizeInput(b.titulo) ELSE old.titulo,
        IF b.fecha # Undef THEN b.fecha ELSE old.fecha,
        IF b.hora # Undef THEN b.hora ELSE old.hora,
        IF b.categoriaId # Undef THEN b.categoriaId ELSE old.categoriaId,
        IF b.completada # Undef THEN b.completada ELSE old.completada)

putTareas(req, data) ==
  IF ~HasTareas(data) THEN Outcome(Fail(req.op, 500), data, FALSE)
  ELSE LET i == tareaIndex(data, req.id) IN
    IF i = 0 THEN Outcome(Fail(req.op, 404), data, FALSE)
    ELSE LET nueva == tareaActualizada(data.tareas[i], req.b) IN
      Outcome(Response(req.op, 200, 0, nueva, NoCategoria, ""),
              [data EXCEPT !.tareas[i] = nueva], TRUE)

(* DELETE /api/tareas *)

deleteTareasEarly(req) == IF ~req.ids.isArray THEN 400 ELSE 0

\* A removal that stops at the first task found
tareasRestantesFirst(tareas, ids) ==
  LET S == {i \in 1..Len(tareas) : Includes(ids, Num(tareas[i].id))}
  IN IF S = {} THEN tareas ELSE RemoveAt(tareas, FirstIndex(S))

tareasRestantes(tareas, ids) == SelectSeq(tareas, LAMBDA t : ~Includes(ids, Num(t.id)))

deleteTareas(req, data) ==
  IF ~HasTareas(data) THEN Outcome(Fail(req.op, 500), data, FALSE)
  ELSE LET resto == tareasRestantes(data.tareas, req.ids.list) IN
    Outcome(Response(req.op, 200, Len(data.tareas) - Len(resto), NoTarea, NoCategoria, ""),
            [data EXCEPT !.tareas = resto], TRUE)

----------------------------------------------------------------------------
(* POST /api/categorias *)

postCategoriasEarly(req) == IF ~Truthy(req.b.nombre) THEN 400 ELSE 0

nuevaCategoria(req, t) ==
  Categoria(t, sanitizeInput(req.b.nombre),
            IF Truthy(req.b.color) THEN req.b.color ELSE DefaultColor)

postCategorias(req, data, t) ==
  IF ~HasCategorias(data) THEN Outcome(Fail(req.op, 500), data, FALSE)
  ELSE Outcome(Response(req.op, 200, 0, NoTarea, nuevaCategoria(req, t), ""),
               [data EXCEPT !.categorias = Append(@, nuevaCategoria(req, t))], TRUE)

(* PUT /api/categorias/:id *)

categoriaIndex(data, id) ==
  FirstIndex({i \in 1..Len(data.categorias) : LooseEq(Num(data.categorias[i].id), Str(id))})

categoriaActualizada(old, b) ==
  Categoria(old.id,
            IF b.nombre # Undef THEN sanitizeInput(b.nombre) ELSE old.nombre,
            IF b.color # Undef THEN b.color ELSE old.color)

putCategorias(req, data) ==
  IF ~HasCategorias(data) THEN Outcome(Fail(req.op, 500), data, FALSE)
  ELSE LET i == categoriaIndex(data, req.id) IN
    IF i = 0 THEN Outcome(Fail(req.op, 404), data, FALSE)
    ELSE LET nueva == categoriaActualizada(data.categorias[i], req.b) IN
      Outcome(Response(req.op, 200, 0, NoTarea, nueva, ""),
              [data EXCEPT !.categorias[i] = nueva], TRUE)

(* DELETE /api/categorias/:id *)

\* The same test with === in place of ==
ReferenciaEstricta(t, id) == t.categoriaId = Str(id)

\* t.categoriaId == id
Referencia(t, id) == LooseEq(t.categoriaId, Str(id))

tareasConCategoria(data, id) == SelectSeq(data.tareas, LAMBDA t : Referencia(t, id))

deleteCategorias(req, data) ==
  IF ~HasCategorias(data) THEN Outcome(Fail(req.op, 500), data, FALSE)
  ELSE LET i == categoriaIndex(data, req.id) IN
    IF i = 0 THEN Outcome(Fail(req.op, 404), data, FALSE)
    ELSE IF ~HasTareas(data) THEN Outcome(Fail(req.op, 500), data, FALSE)
    ELSE IF Len(tareasConCategoria(data, req.id)) > 0 THEN Outcome(Fail(req.op, 400), data, FALSE)
    ELSE Outcome(Response(req.op, 200, 0, NoTarea, data.categorias[i], ""),
                 [data EXCEPT !.categorias = RemoveAt(@, i)], TRUE)

----------------------------------------------------------------------------
(* The handlers that need no token *)

\* GET /api/tareas and GET /api/categorias: data.tareas of null throws
getLista(req, data) ==
  IF data.kind = "null" THEN Outcome(Fail(req.op, 500), data, FALSE)
  ELSE Outcome(Response(req.op, 200, 0, NoTarea, NoCategoria, ""), data, FALSE)

\* GET /api/test/unitarias, prueba2
prueba2(testData) == IF testData.hasT /\ testData.hasC THEN "PASS" ELSE "FAIL"

testUnitarias(req, data) ==
  IF data.kind = "null" THEN Outcome(Fail(req.op, 500), data, FALSE)
  ELSE Outcome(Response(req.op, 200, 0, NoTarea, NoCategoria, prueba2(data)), data, FALSE)

\* GET /api/test/integracion
TituloPrueba ==
  <<"T", "a", "r", "e", "a", " ", "d", "e", " ", "p", "r", "u", "e", "b", "a", " ",
    "i", "n", "t", "e", "g", "r", "a", "c", "i", "ó", "n">>

tareaPrueba(t) ==
  Tarea(t, Str(TituloPrueba),
        Str(<<"2", "0", "2", "4", "-", "1", "2", "-", "0", "1">>),
        Str(<<"1", "4", ":", "3", "0">>), Undef, Bool(FALSE))

\* The file after the handler: written with the test task, read back, written again
\* with the task list as first read.
testIntegracionFile(f, t, disk) ==
  LET dataInicial == readData(f) IN
    IF ~HasTareas(dataInicial) THEN f
    ELSE LET f1 == saveData(f, [dataInicial EXCEPT !.tareas = Append(@, tareaPrueba(t))], disk)
         IN saveData(f1, dataInicial, disk)

testIntegracionResponse(req, f, t, disk) ==
  LET dataInicial == readData(f) IN
    IF ~HasTareas(dataInicial) THEN Fail(req.op, 500)
    ELSE LET f1 == saveData(f, [dataInicial EXCEPT !.tareas = Append(@, tareaPrueba(t))], disk)
             dataDespuesCrear == readData(f1)
         IN IF ~HasTareas(dataDespuesCrear) THEN Fail(req.op, 500)
            ELSE Response(req.op, 200, 0, NoTarea, NoCategoria,
                   IF \E i \in 1..Len(dataDespuesCrear.tareas) : dataDespuesCrear.tareas[i].id = t
                   THEN "PASS" ELSE "FAIL")

----------------------------------------------------------------------------
(* Dispatch: the middleware and handler Express runs for a request *)

\* The status of a return before readData, 0 when the handler goes on to read
EarlyStatus(req) ==
  IF req.op \in Guarded /\ ~validateToken(req) THEN 401
  ELSE CASE req.op = "postTareas" -> postTareasEarly(req)
         [] req.op = "deleteTareas" -> deleteTareasEarly(req)
         [] req.op = "postCategorias" -> postCategoriasEarly(req)
         [] OTHER -> 0

\* The handler from the document readData returned to its response
Proceed(req, data, t) ==
  CASE req.op = "postTareas" -> postTareas(req, data, t)
    [] req.op = "putTareas" -> putTareas(req, data)
    [] req.op = "deleteTareas" -> deleteTareas(req, data)
    [] req.op = "postCategorias" -> postCategorias(req, data, t)
    [] req.op = "putCategorias" -> putCategorias(req, data)
    [] req.op = "deleteCategorias" -> deleteCategorias(req, data)
    [] req.op = "testUnitarias" -> testUnitarias(req, data)
    [] OTHER -> getLista(req, data)

\* The response and the file a handler that was not cut short leaves
HandlerResponse(req, data, f, t, disk) ==
  IF req.op = "testIntegracion" THEN testIntegracionResponse(req, f, t, disk)
  ELSE Proceed(req, data, t).r

HandlerFile(req, data, f, t, disk) ==
  IF req.op = "testIntegracion" THEN testIntegracionFile(f, t, disk)
  ELSE IF Proceed(req, data, t).save THEN saveData(f, Proceed(req, data, t).data, disk)
  ELSE f

ReadOnly == {"getTareas", "getCategorias", "testUnitarias"}

----------------------------------------------------------------------------
(* State *)

Slots == {1, 2}

Idle == [active |-> FALSE, data |-> JNull]
NoLoaded == [done |-> FALSE, doc |-> JNull]

\* A server whose handlers could give the event loop back between readData and
\* saveData
EventLoopShared == TRUE

\* Node runs one handler at a time, and every handler is synchronous from its
\* readData to its saveData: a handler starts only when none is running.
EventLoopFree == \A q \in Slots : ~inflight[q].active

\* The model stops sending creations once the document holds the bound
Room(req) ==
  LET data == readData(file) IN
    /\ req.op = "postTareas" => Len(data.tareas) < MaxTareas
    /\ req.op = "postCategorias" => Len(data.categorias) < MaxCategorias

\* express.json() has parsed the request of connection s; its handler is queued
Arrive(s, req) ==
  /\ pending[s] = NoReq
  /\ Room(req)
  /\ pending' = [pending EXCEPT ![s] = req]
  /\ resp' = [resp EXCEPT ![s] = NoResp]
  /\ loaded' = NoLoaded
  /\ UNCHANGED <<file, now, inflight, prevDel>>

\* ids and count: the ids and deletedCount of the request handled last, when that
\* was a successful DELETE /api/tareas; before: the deletedCount of the request
\* handled just before it, when that one was a successful delete of the same ids
NoPrev == [ids |-> NoIds, count |-> 0, before |-> -1]

History(req, r, data) ==
  /\ prevDel' = IF req.op = "deleteTareas" /\ r.status = 200
                THEN [ids |-> req.ids, count |-> r.count,
                      before |-> IF prevDel.ids = req.ids THEN prevDel.count ELSE -1]
                ELSE NoPrev
  /\ loaded' = IF req.op \in ReadOnly THEN [done |-> TRUE, doc |-> data] ELSE NoLoaded

\* The whole handler of connection s, in one turn of the event loop
Handle(s, disk) ==
  /\ pending[s] # NoReq
  /\ LET req == pending[s]
         early == EarlyStatus(req)
         data == readData(file)
         r == IF early # 0 THEN Fail(req.op, early)
              ELSE HandlerResponse(req, data, file, now, disk)
     IN /\ file' = IF early # 0 THEN file ELSE HandlerFile(req, data, file, now, disk)
        /\ resp' = [resp EXCEPT ![s] = r]
        /\ History(req, r, data)
  /\ pending' = [pending EXCEPT ![s] = NoReq]
  /\ UNCHANGED <<now, inflight>>

\* The same handler in two steps: up to readData, and from there to the response
Start(s) ==
  /\ pending[s] # NoReq
  /\ ~inflight[s].active
  /\ EventLoopFree
  /\ LET req == pending[s]
         early == EarlyStatus(req)
     IN IF early # 0
        THEN /\ resp' = [resp EXCEPT ![s] = Fail(req.op, early)]
             /\ pending' = [pending EXCEPT ![s] = NoReq]
             /\ History(req, Fail(req.op, early), JNull)
             /\ UNCHANGED inflight
        ELSE /\ inflight' = [inflight EXCEPT ![s] = [active |-> TRUE, data |-> readData(file)]]
             /\ UNCHANGED <<resp, pending, prevDel, loaded>>
  /\ UNCHANGED <<file, now>>

Finish(s, disk) ==
  /\ inflight[s].active
  /\ LET req == pending[s]
         data == inflight[s].data
         r == HandlerResponse(req, data, file, now, disk)
     IN /\ file' = HandlerFile(req, data, file, now, disk)
        /\ resp' = [resp EXCEPT ![s] = r]
        /\ History(req, r, data)
  /\ pending' = [pending EXCEPT ![s] = NoReq]
  /\ inflight' = [inflight EXCEPT ![s] = Idle]
  /\ UNCHANGED now

\* A millisecond passes
Tick ==
  /\ now < MaxNow
  /\ now' = now + 1
  /\ UNCHANGED <<file, pending, inflight, resp, prevDel, loaded>>

----------------------------------------------------------------------------
(* Inputs shared by the specifications *)

Fecha1201 == <<"2", "0", "2", "4", "-", "1", "2", "-", "0", "1">>
Fecha1301 == <<"2", "0", "2", "4", "-", "1", "3", "-", "0", "1">>
Hora2359 == <<"2", "3", ":", "5", "9">>
Hora0000 == <<"0", "0", ":", "0", "0">>
Hora2400 == <<"2", "4", ":", "0", "0">>

\* The id of a task written before the model's first millisecond
OldId == FirstNow - 1

TareaVieja(categoriaId) ==
  Tarea(OldId, Str(<<"a">>), Str(Fecha1201), Str(Hora2359), categoriaId, Bool(FALSE))

\* Authorization headers: the token, near misses, and no header
Headers == {Token, "bearer demo-token-123", "Bearer demo-token-1234", NoHeader}

NuevaTareaBody(categoriaId) ==
  Body(Str(<<"a">>), Str(Fecha1201), Str(Hora2359), Undef, categoriaId, Undef, Undef)

TareaPatch(completada, categoriaId) ==
  Body(Undef, Undef, Undef, completada, categoriaId, Undef, Undef)

CategoriaBody(nombre, color) == Body(Undef, Undef, Undef, Undef, Undef, nombre, color)

Get(op) == Request(op, NoHeader, <<>>, NoBody, NoIds)

InitWith(files) ==
  /\ file \in files
  /\ now = FirstNow
  /\ pending = [s \in Slots |-> NoReq]
  /\ inflight = [s \in Slots |-> Idle]
  /\ resp = [s \in Slots |-> NoResp]
  /\ prevDel = NoPrev
  /\ loaded = NoLoaded

HandleOk == Handle(1, "ok")

----------------------------------------------------------------------------
(* Spec: every route, each guarded route under every header *)

Requests ==
  {Request("postTareas", a, <<>>, NuevaTareaBody(Num(1)), NoIds) : a \in Headers}
  \cup {Request("putTareas", a, DecStr(OldId), TareaPatch(Bool(TRUE), Undef), NoIds) : a \in Headers}
  \cup {Request("deleteTareas", a, <<>>, NoBody, Ids(<<Num(OldId)>>)) : a \in Headers}
  \cup {Request("postCategorias", a, <<>>, CategoriaBody(Str(<<"n">>), Undef), NoIds) : a \in Headers}
  \cup {Request("putCategorias", a, <<"1">>, CategoriaBody(Str(<<"m">>), Undef), NoIds) : a \in Headers}
  \cup {Request("deleteCategorias", a, <<"2">>, NoBody, NoIds) : a \in Headers}
  \cup {Get(op) : op \in {"getTareas", "getCategorias", "testUnitarias", "testIntegracion"}}

\* Backing files that load to a document: none, unparseable text, a document,
\* and the old format (a bare array of tasks)
DocumentFiles ==
  {FileAbsent, FileGarbage,
   FileOf(Doc(<<>>, DefaultCategorias)),
   FileOf(Doc(<<TareaVieja(Num(1))>>, DefaultCategorias)),
   FileOf(JArray(<<TareaVieja(Null)>>))}

Init == InitWith(DocumentFiles)

ArriveAny == \E req \in Requests : Arrive(1, req)

Next == ArriveAny \/ HandleOk \/ Tick

Spec == Init /\ [][Next]_vars

----------------------------------------------------------------------------
(* Claims checked under Spec *)

\* The step in which connection s gets its response
Answered(s) == pending[s] # NoReq /\ pending'[s] = NoReq

\* C2: a guarded route (POST, PUT, DELETE on /api/tareas and /api/categorias)
\* called with a header other than the exact token, or with none, answers 401
\* and leaves the backing file as it was.
C2_Unauthorized ==
  [][\A s \in Slots :
       (Answered(s) /\ pending[s].op \in Guarded /\ pending[s].auth # Token)
         => (resp'[s].status = 401 /\ file' = file)]_vars

\* C2 witness: a DELETE /api/tareas without the token was refused while the file
\* holds the task it names.
C2_Witness ==
  /\ resp[1].op = "deleteTareas"
  /\ resp[1].status = 401
  /\ file.exists
  /\ \E i \in 1..Len(readData(file).tareas) : readData(file).tareas[i].id = OldId

----------------------------------------------------------------------------
(* SpecCategory: categories, and the tasks that refer to them *)

CategoryRequests ==
  {Request("postTareas", Token, <<>>, NuevaTareaBody(Num(1)), NoIds),
   Request("postCategorias", Token, <<>>, CategoriaBody(Str(<<"n">>), Undef), NoIds)}
  \cup {Request("putTareas", Token, DecStr(OldId), TareaPatch(Undef, c), NoIds) : c \in {Null, Num(2)}}
  \cup {Request("deleteTareas", Token, <<>>, NoBody, Ids(<<Num(k)>>)) : k \in {OldId, FirstNow}}
  \cup {Request("deleteCategorias", Token, DecStr(k), NoBody, NoIds) : k \in {1, 2, FirstNow}}

CategoryFiles ==
  {FileAbsent,
   FileOf(Doc(<<TareaVieja(Num(1))>>, DefaultCategorias)),
   FileOf(JArray(<<TareaVieja(Str(<<"1">>))>>))}

InitCategory == InitWith(CategoryFiles)

ArriveCategory == \E req \in CategoryRequests : Arrive(1, req)

NextCategory == ArriveCategory \/ HandleOk \/ Tick

SpecCategory == InitCategory /\ [][NextCategory]_vars

\* listCategories of a file
Listed(f) == readData(f).categorias

EntriesOf(c, f) == {i \in 1..Len(Listed(f)) : Listed(f)[i].id = c}

\* some task of the file has categoriaId equal to c: the number, or its decimal text
Referenced(c, f) ==
  \E i \in 1..Len(readData(f).tareas) :
    readData(f).tareas[i].categoriaId \in {Num(c), Str(DecStr(c))}

\* The step that answers DELETE /api/categorias/:c for a listed category c
DeleteOf(c) ==
  /\ Answered(1)
  /\ pending[1].op = "deleteCategorias"
  /\ pending[1].auth = Token
  /\ pending[1].id = DecStr(c)
  /\ EntriesOf(c, file) # {}

Refused(c) == resp'[1].status = 400 /\ file' = file /\ EntriesOf(c, file') # {}

\* C1 as claimed: the delete of a referenced category answers 400 and changes
\* nothing; the delete of an unreferenced one succeeds and the id is no longer listed.
C1_AbsentAfterDelete ==
  [][\A c \in 1..MaxNow :
       DeleteOf(c) =>
         IF Referenced(c, file) THEN Refused(c)
         ELSE resp'[1].status = 200 /\ EntriesOf(c, file') = {}]_vars

\* C1 as amended: the delete of a referenced category answers 400 and changes
\* nothing; the delete of an unreferenced one succeeds, removes the first entry
\* with that id and nothing else, and the id is no longer listed when no other
\* entry carries it.
C1_DeleteRemovesOneEntry ==
  [][\A c \in 1..MaxNow :
       DeleteOf(c) =>
         IF Referenced(c, file) THEN Refused(c)
         ELSE /\ resp'[1].status = 200
              /\ readData(file').tareas = readData(file).tareas
              /\ Listed(file') = RemoveAt(Listed(file), FirstIndex(EntriesOf(c, file)))
              /\ Cardinality(EntriesOf(c, file)) = 1 => EntriesOf(c, file') = {}]_vars

\* C1 witness: category 1 was deleted after the old task that referred to it was
\* given another category.
C1_Witness ==
  /\ resp[1].op = "deleteCategorias"
  /\ resp[1].status = 200
  /\ resp[1].categoria.id = 1
  /\ EntriesOf(1, file) = {}
  /\ \E i \in 1..Len(readData(file).tareas) :
       /\ readData(file).tareas[i].id = OldId
       /\ readData(file).tareas[i].categoriaId \in {Null, Num(2)}

----------------------------------------------------------------------------
(* SpecDelete: tasks created and deleted *)

DeleteRequests ==
  {Request("postTareas", Token, <<>>, NuevaTareaBody(Undef), NoIds), Get("getTareas")}
  \cup {Request("deleteTareas", Token, <<>>, NoBody, ids) :
          ids \in {NoIds, Ids(<<>>), Ids(<<Num(OldId)>>), Ids(<<Num(FirstNow)>>),
                   Ids(<<Num(FirstNow), Num(OldId)>>), Ids(<<Num(MaxNow)>>),
                   Ids(<<Str(DecStr(OldId))>>)}}

DeleteFiles ==
  {FileAbsent, FileGarbage,
   FileOf(Doc(<<TareaVieja(Null)>>, DefaultCategorias)),
   FileOf(Doc(<<TareaVieja(Null), TareaVieja(Num(1))>>, DefaultCategorias)),
   FileOf(JArray(<<TareaVieja(Null)>>))}

InitDelete == InitWith(DeleteFiles)

ArriveDelete == \E req \in DeleteRequests : Arrive(1, req)

NextDelete == ArriveDelete \/ HandleOk \/ Tick

SpecDelete == InitDelete /\ [][NextDelete]_vars

\* The tasks of a list whose id is not one of the numbers of ids, in their order
RECURSIVE Kept(_, _)
Kept(tareas, ids) ==
  IF tareas = <<>> THEN <<>>
  ELSE IF \E j \in 1..Len(ids) : ids[j].t = "number" /\ ids[j].n = tareas[1].id
       THEN Kept(Tail(tareas), ids)
       ELSE <<tareas[1]>> \o Kept(Tail(tareas), ids)

\* The step that answers DELETE /api/tareas with the token and an ids array
DeleteStep ==
  /\ Answered(1)
  /\ pending[1].op = "deleteTareas"
  /\ pending[1].auth = Token
  /\ pending[1].ids.isArray

\* C8: a deleteTasks request removes every task whose id is in its list, keeps
\* the others and reports the number removed; when the request handled just
\* before it was a deleteTasks with the same list, it reports deletedCount 0,
\* answers 200 and leaves the document as it found it.
C8_DeleteIdempotent ==
  [][DeleteStep =>
       /\ resp'[1].status = 200
       /\ readData(file').tareas = Kept(readData(file).tareas, pending[1].ids.list)
       /\ readData(file').categorias = readData(file).categorias
       /\ resp'[1].count = Len(readData(file).tareas) - Len(readData(file').tareas)
       /\ prevDel.ids = pending[1].ids => (resp'[1].count = 0 /\ file' = file)]_vars

\* C8 witness: a delete that removed two tasks was repeated and reported 0.
C8_Witness ==
  /\ resp[1].op = "deleteTareas"
  /\ resp[1].status = 200
  /\ resp[1].count = 0
  /\ prevDel.before = 2

----------------------------------------------------------------------------
(* SpecValidation: POST /api/tareas over titles, dates and times *)

Titulos == {Undef, Str(<<>>), Str(<<"a">>)}

Fechas == {Undef, Str(<<>>), Str(Fecha1201), Str(Fecha1301), Str(<<"2", "0", "2", "4", "-", "1", "-", "0", "1">>)}

Horas ==
  {Undef, Str(<<>>), Str(Hora2359), Str(Hora0000), Str(Hora2400),
   Str(<<"9", ":", "3", "0">>), Str(<<"2", "3", ":", "6", "0">>),
   Str(<<"1", "2", ":", "5">>), Str(<<"1", "2", "3", "0">>)}

\* One field at a time away from a valid request, and every way of leaving fields out
ValidationBodies ==
  {Body(t, Str(Fecha1201), Str(Hora2359), Undef, Undef, Undef, Undef) : t \in Titulos}
  \cup {Body(Str(<<"a">>), f, Str(Hora2359), Undef, Undef, Undef, Undef) : f \in Fechas}
  \cup {Body(Str(<<"a">>), Str(Fecha1201), h, Undef, Undef, Undef, Undef) : h \in Horas}
  \cup {Body(t, f, h, Undef, Undef, Undef, Undef) :
          t \in {Undef, Str(<<"a">>)}, f \in {Undef, Str(Fecha1201)}, h \in {Undef, Str(Hora2400)}}

ValidationRequests ==
  {Request("postTareas", Token, <<>>, b, NoIds) : b \in ValidationBodies}
  \cup {Request("deleteTareas", Token, <<>>, NoBody, Ids(<<Num(OldId), Num(FirstNow)>>)),
        Request("deleteTareas", Token, <<>>, NoBody, Ids(<<Num(MaxNow)>>))}

ValidationFiles ==
  {FileAbsent, FileGarbage,
   FileOf(Doc(<<TareaVieja(Null)>>, DefaultCategorias)),
   FileOf(JArray(<<TareaVieja(Null)>>))}

InitValidation == InitWith(ValidationFiles)

ArriveValidation == \E req \in ValidationRequests : Arrive(1, req)

NextValidation == ArriveValidation \/ HandleOk \/ Tick

SpecValidation == InitValidation /\ [][NextValidation]_vars

\* A field the request does not carry, or carries empty
Missing(v) == v = Undef \/ v = Str(<<>>)

IsDigits(s) == \A i \in 1..Len(s) : s[i] \in Digit

\* The text is hours, a colon and minutes: hours of the given numbers of digits
\* with a value up to 23, minutes of two digits with a value up to 59
TimeOfDay(v, hourDigits) ==
  /\ v.t = "string"
  /\ \E k \in hourDigits :
       /\ Len(v.s) = k + 3
       /\ v.s[k + 1] = ":"
       /\ IsDigits(SubSeq(v.s, 1, k)) /\ DecVal(SubSeq(v.s, 1, k)) <= 23
       /\ IsDigits(SubSeq(v.s, k + 2, k + 3)) /\ DecVal(SubSeq(v.s, k + 2, k + 3)) <= 59

\* HH:MM
TimeHHMM(v) == TimeOfDay(v, {2})

\* HH:MM or H:MM (9:30)
TimeHMM(v) == TimeOfDay(v, {1, 2})

\* The step that answers POST /api/tareas sent with the token
CreateStep == Answered(1) /\ pending[1].op = "postTareas" /\ pending[1].auth = Token

Rejected == resp'[1].status = 400 /\ file' = file

\* Exactly one task was appended, not completed, carrying the request's date and time
AppendedOne ==
  /\ resp'[1].status = 200
  /\ Len(readData(file').tareas) = Len(readData(file).tareas) + 1
  /\ SubSeq(readData(file').tareas, 1, Len(readData(file).tareas)) = readData(file).tareas
  /\ readData(file').categorias = readData(file).categorias
  /\ LET nueva == readData(file').tareas[Len(readData(file').tareas)]
     IN /\ nueva.completada = Bool(FALSE)
        /\ nueva.fecha = pending[1].b.fecha
        /\ nueva.hora = pending[1].b.hora
        /\ nueva = resp'[1].tarea

AcceptsTheBoundaryTimes ==
  (/\ ~Missing(pending[1].b.titulo)
   /\ pending[1].b.fecha = Str(Fecha1201)
   /\ pending[1].b.hora \in {Str(Hora2359), Str(Hora0000)}) => AppendedOne

C6_RejectsMonth13 ==
  [][(/\ CreateStep
      /\ ~Missing(pending[1].b.titulo)
      /\ TimeHHMM(pending[1].b.hora))
       => /\ pending[1].b.fecha = Str(Fecha1301) => Rejected
          /\ pending[1].b.fecha = Str(Fecha1201) => AppendedOne]_vars

----------------------------------------------------------------------------
(* SpecText: text with markup characters sent to every route that stores text *)

Markup == <<" ", "<", "b", ">", "\"", "'", "/", " ">>

TextRequests ==
  {Request("postTareas", Token, <<>>,
           Body(t, Str(Fecha1201), Str(Hora2359), Undef, Undef, Undef, Undef), NoIds) :
     t \in {Str(<<"a">>), Str(Markup), Num(7)}}
  \cup {Request("putTareas", Token, DecStr(OldId), b, NoIds) :
          b \in {Body(Str(Markup), Undef, Undef, Undef, Undef, Undef, Undef),
                 Body(Undef, Str(Markup), Undef, Undef, Undef, Undef, Undef),
                 Body(Undef, Undef, Str(Markup), Undef, Undef, Undef, Undef)}}
  \cup {Request("postCategorias", Token, <<>>, CategoriaBody(n, c), NoIds) :
          n \in {Str(<<"n">>), Str(Markup)}, c \in {Undef, Str(Markup)}}
  \cup {Request("putCategorias", Token, <<"1">>, CategoriaBody(n, c), NoIds) :
          n \in {Undef, Str(Markup)}, c \in {Undef, Str(Markup)}}
  \cup {Request("deleteTareas", Token, <<>>, NoBody, Ids(<<Num(FirstNow), Num(MaxNow)>>))}

TextFiles ==
  {FileAbsent,
   FileOf(Doc(<<TareaVieja(Null)>>, DefaultCategorias)),
   FileOf(JArray(<<TareaVieja(Null)>>))}

InitText == InitWith(TextFiles)

ArriveText == \E req \in TextRequests : Arrive(1, req)

NextText == ArriveText \/ HandleOk \/ Tick

SpecText == InitText /\ [][NextText]_vars

Forbidden == {"<", ">", "\"", "'", "/"}

Clean(v) == \A i \in 1..Len(v.s) : v.s[i] \notin Forbidden

\* C3: starting from a document whose text is free of < > " ' /, no stored text
\* field that came from user input (titulo, fecha, hora of a task; nombre, color
\* of a category) holds one of these characters.
C3_NoMarkupStored ==
  /\ \A i \in 1..Len(readData(file).tareas) :
       /\ Clean(readData(file).tareas[i].titulo)
       /\ Clean(readData(file).tareas[i].fecha)
       /\ Clean(readData(file).tareas[i].hora)
  /\ \A i \in 1..Len(readData(file).categorias) :
       /\ Clean(readData(file).categorias[i].nombre)
       /\ Clean(readData(file).categorias[i].color)

----------------------------------------------------------------------------
(* SpecDisk: the mutating routes, with writeFileSync succeeding or failing *)

Disks == {"ok", "denied", "truncated"}

DiskRequests ==
  {Request("postTareas", Token, <<>>, NuevaTareaBody(Undef), NoIds),
   Request("putTareas", Token, DecStr(OldId), TareaPatch(Bool(TRUE), Undef), NoIds),
   Request("deleteTareas", Token, <<>>, NoBody, Ids(<<Num(OldId)>>)),
   Request("postCategorias", Token, <<>>, CategoriaBody(Str(<<"n">>), Undef), NoIds),
   Request("putCategorias", Token, <<"1">>, CategoriaBody(Str(<<"n">>), Undef), NoIds),
   Request("deleteCategorias", Token, <<"2">>, NoBody, NoIds)}

DiskFiles ==
  {FileAbsent,
   FileOf(Doc(<<TareaVieja(Null)>>, DefaultCategorias)),
   FileOf(JArray(<<TareaVieja(Num(1))>>))}

InitDisk == InitWith(DiskFiles)

ArriveDisk == \E req \in DiskRequests : Arrive(1, req)

HandleDisk == \E disk \in Disks : Handle(1, disk)

NextDisk == ArriveDisk \/ HandleDisk \/ Tick

SpecDisk == InitDisk /\ [][NextDisk]_vars

\* The mutation that the response r to the request req reports is in the document
Persisted(req, r, data) ==
  CASE req.op \in {"postTareas", "putTareas"} ->
         \E i \in 1..Len(data.tareas) : data.tareas[i] = r.tarea
    [] req.op \in {"postCategorias", "putCategorias"} ->
         \E i \in 1..Len(data.categorias) : data.categorias[i] = r.categoria
    [] req.op = "deleteTareas" ->
         \A i \in 1..Len(data.tareas) : ~Includes(req.ids.list, Num(data.tareas[i].id))
    [] OTHER ->
         \A i \in 1..Len(data.categorias) : data.categorias[i] # r.categoria

\* C4: whenever a mutating request answers 200, the mutation it reports is in the
\* backing file after the request; so a request whose write failed does not
\* answer 200.
C4_SuccessIsPersisted ==
  [][(Answered(1) /\ pending[1].op \in Guarded /\ resp'[1].status = 200)
       => Persisted(pending[1], resp'[1], readData(file'))]_vars

----------------------------------------------------------------------------
(* SpecLoad: readData over every kind of backing file *)

LoadFiles ==
  {FileAbsent, FileGarbage,
   FileOf(Doc(<<>>, DefaultCategorias)),
   FileOf(Doc(<<TareaVieja(Num(1))>>, DefaultCategorias)),
   FileOf(JArray(<<TareaVieja(Null)>>)),
   FileOf(JArray(<<TareaVieja(Null), TareaVieja(Num(1))>>)),
   FileOf(JArray(<<>>)),
   FileOf(JObject(FALSE, <<>>, FALSE, <<>>)),
   FileOf(JObject(TRUE, <<TareaVieja(Null)>>, FALSE, <<>>)),
   FileOf(JObject(FALSE, <<>>, TRUE, DefaultCategorias)),
   FileOf(JNull)}

LoadRequests ==
  {Get("getTareas"), Get("getCategorias"), Get("testUnitarias"),
   Request("postTareas", Token, <<>>, NuevaTareaBody(Undef), NoIds)}

InitLoad == InitWith(LoadFiles)

ArriveLoad == \E req \in LoadRequests : Arrive(1, req)

NextLoad == ArriveLoad \/ HandleOk \/ Tick

SpecLoad == InitLoad /\ [][NextLoad]_vars

\* C5: the document a handler got from readData has both sequences, tareas and
\* categorias, whatever the backing file holds; when the file is a bare array with
\* tasks in it, they are the document's tareas and categorias is not empty.
C5_BothSequences ==
  loaded.done =>
    /\ HasTareas(loaded.doc)
    /\ HasCategorias(loaded.doc)
    /\ (file.parses /\ file.val.kind = "array" /\ Len(file.val.items) > 0)
         => (loaded.doc.tareas = file.val.items /\ Len(loaded.doc.categorias) > 0)

----------------------------------------------------------------------------
(* SpecIntegration: GET /api/test/integracion over the files it can find *)

IntegrationFiles ==
  {FileAbsent, FileGarbage,
   FileOf(JArray(<<TareaVieja(Null)>>)),
   FileOf(Doc(<<>>, DefaultCategorias)),
   FileOf(Doc(<<TareaVieja(Num(1))>>, DefaultCategorias))}

IntegrationRequests ==
  {Get("testIntegracion"), Get("getTareas"),
   Request("postTareas", Token, <<>>, NuevaTareaBody(Undef), NoIds),
   Request("deleteTareas", Token, <<>>, NoBody, Ids(<<Num(OldId)>>))}

InitIntegration == InitWith(IntegrationFiles)

ArriveIntegration == \E req \in IntegrationRequests : Arrive(1, req)

NextIntegration == ArriveIntegration \/ HandleOk \/ Tick

SpecIntegration == InitIntegration /\ [][NextIntegration]_vars

\* C10: GET /api/test/integracion leaves the backing file as it found it: the same
\* existence, the same shape, the same tasks and the same categories.
C10_FileRestored ==
  [][(Answered(1) /\ pending[1].op = "testIntegracion") => file' = file]_vars

----------------------------------------------------------------------------
(* SpecRace: two connections, each handler split at its readData *)

RaceRequests ==
  {Request("postTareas", Token, <<>>,
           Body(Str(t), Str(Fecha1201), Str(Hora2359), Undef, Undef, Undef, Undef), NoIds) :
     t \in {<<"a">>, <<"b">>}}
  \cup {Request("deleteTareas", Token, <<>>, NoBody, Ids(<<Num(OldId)>>)),
        Request("postTareas", NoHeader, <<>>, NuevaTareaBody(Undef), NoIds)}

RaceFiles == {FileAbsent, FileOf(Doc(<<TareaVieja(Null)>>, DefaultCategorias))}

RaceDisks == {"ok", "denied"}

InitRace == InitWith(RaceFiles)

ArriveRace == \E s \in Slots, req \in RaceRequests : Arrive(s, req)

StartRace == \E s \in Slots : Start(s)

FinishRace == \E s \in Slots, disk \in RaceDisks : Finish(s, disk)

NextRace == ArriveRace \/ StartRace \/ FinishRace \/ Tick

SpecRace == InitRace /\ [][NextRace]_vars

\* A handler is between its readData and its saveData
Reading(s) == inflight[s].active

\* A parsed request that passes the checks made before readData waits for its handler
Waiting(s) == pending[s] # NoReq /\ ~inflight[s].active /\ EarlyStatus(pending[s]) = 0

\* C9 as claimed: mutating requests interleave, a second handler can read the file
\* while a first one is between its read and its write (and the one that
\* writes last then discards the change of the other).
C9_HandlersInterleave ==
  \A s, q \in Slots : (s # q /\ Reading(s) /\ Waiting(q)) => ENABLED Start(q)

\* C9 as amended: at most one handler is between its read and its write, and the
\* document it read is the document the file holds now, so no handler writes from
\* a state that another request has replaced since.
C9_NoStaleRead ==
  /\ \A s, q \in Slots : (Reading(s) /\ Reading(q)) => s = q
  /\ \A s \in Slots : Reading(s) => inflight[s].data = readData(file)

\* C9 witness: two mutating requests at once; one handler has read, the other
\* request is parsed and waits, the file holding a change made before.
C9_Witness ==
  /\ Reading(1)
  /\ Waiting(2)
  /\ pending[1].op = "postTareas"
  /\ pending[2].op = "postTareas"
  /\ pending[1].b.titulo # pending[2].b.titulo
  /\ Len(readData(file).tareas) > 0

====
